---------------------------- MODULE Spec2Model ----------------------------
(***************************************************************************)
(* Model of rust-lambda-s3-tagging-sqs: a Lambda handler that stamps       *)
(* status tags on an S3 object version, validates the object's metadata    *)
(* and sends one message to a success or a failure SQS queue.              *)
(*                                                                         *)
(*   src/src/generate_tags.rs  the tag algebra (trait GenerateTags)        *)
(*   src/src/lib.rs            the validator, single_tag and add_tag       *)
(*   src/src/main.rs           function_handler                            *)
(*                                                                         *)
(* Strings the code inspects character by character (object keys) are      *)
(* sequences of one-character strings; Option<T> is a sequence of length   *)
(* at most one.                                                            *)
(***************************************************************************)
EXTENDS Integers, Sequences, FiniteSets, TLC

VARIABLES
    env,        \* the process environment: the two queue URLs, each optional
    event,      \* the S3Event payload every invocation receives: its records
    store,      \* S3: the tag set of each object version
    queues,     \* SQS: the messages each queue has accepted, in order
    pc,         \* per invocation: where function_handler is suspended
    calls,      \* per invocation: the remote calls issued so far, with outcome
    verdict,    \* per invocation: Option of is_valid_file's result
    result,     \* per invocation: Option of function_handler's Result
    tagging,    \* tag algebra: the collection the operations are applied to
    lastop,     \* tag algebra: the last operation applied, input and output
    shape,      \* validator: the directory, name segments and extension the key is written from
    given,      \* validator: the S3Entity is_valid_file is called with
    vpc,        \* validator: where is_valid_file stands
    pushed,     \* validator: error_messages, the reasons pushed so far
    checked,    \* validator: the checks evaluated so far, each with what it returned
    validation  \* validator: Option of the (bool, String) is_valid_file returned

wfvars == <<env, event, store, queues, pc, calls, verdict, result>>
tagvars == <<tagging, lastop>>
valvars == <<shape, given, vpc, pushed, checked, validation>>
vars == <<env, event, store, queues, pc, calls, verdict, result, tagging, lastop,
          shape, given, vpc, pushed, checked, validation>>

----------------------------------------------------------------------------
(* Bounds *)

\* Concurrent (or successive) invocations of the handler for the same event.
NumInvocations == 2

\* Longest tag list the tag-algebra specification starts from.
MaxTags == 3

\* Most "-"-separated segments in a file name the validator specification builds.
MaxSegments == 5

----------------------------------------------------------------------------
(* Option and Result *)

None == <<>>
Some(x) == <<x>>
IsSome(o) == o # <<>>
Unwrap(o) == o[1]

Ok(x) == [ok |-> TRUE, val |-> x]
Err(e) == [ok |-> FALSE, err |-> e]

----------------------------------------------------------------------------
(* Tag algebra: src/src/generate_tags.rs *)

\* aws_sdk_s3::model::Tag as built by Tag::builder().key(k).value(v).build()
Tag(k, v) == [key |-> k, value |-> v]

\* Tagging::builder().tag_set(tag).build(): a present list holding that tag;
\* Tagging::builder().set_tag_set(x).build(): tag_set is x;
\* Tagging::builder().build(): tag_set is None.
Tagging(ts) == [tag_set |-> ts]

\* Vec::retain(|tag| tag.key() != Some(name))
retain_other(tags, name) == SelectSeq(tags, LAMBDA t : t.key # name)

\* Iterator::any(|tag| tag.key() == Some(name))
any_named(tags, name) == \E i \in DOMAIN tags : tags[i].key = name

tag_as_true(tag_name) == Tagging(Some(<<Tag(tag_name, "true")>>))

tag_as_false(tag_name) == Tagging(Some(<<Tag(tag_name, "false")>>))

\* Mutant: the new tag is pushed without dropping the tags of the same name.
add_true_tag_push(self, tag_name) ==
    LET new_tag == Tag(tag_name, "true")
        tag_set == IF IsSome(self.tag_set)
                   THEN Append(Unwrap(self.tag_set), new_tag)
                   ELSE <<new_tag>>
    IN  Tagging(Some(tag_set))

add_true_tag(self, tag_name) ==
    LET new_tag == Tag(tag_name, "true")
        tag_set == IF IsSome(self.tag_set)
                   THEN Append(retain_other(Unwrap(self.tag_set), tag_name), new_tag)
                   ELSE <<new_tag>>
    IN  Tagging(Some(tag_set))

\* Mutant: the new tag is pushed without dropping the tags of the same name.
add_false_tag_push(self, tag_name) ==
    LET new_tag == Tag(tag_name, "false")
        tag_set == IF IsSome(self.tag_set)
                   THEN Append(Unwrap(self.tag_set), new_tag)
                   ELSE <<new_tag>>
    IN  Tagging(Some(tag_set))

add_false_tag(self, tag_name) ==
    LET new_tag == Tag(tag_name, "false")
        tag_set == IF IsSome(self.tag_set)
                   THEN Append(retain_other(Unwrap(self.tag_set), tag_name), new_tag)
                   ELSE <<new_tag>>
    IN  Tagging(Some(tag_set))

\* Mutant: with nothing to match against, nothing is inserted.
replace_with_true_tag_match_only(self, old_tag_name, new_tag_name) ==
    LET new_tag == Tag(new_tag_name, "true")
    IN  IF IsSome(self.tag_set)
        THEN LET previous_tags == Unwrap(self.tag_set)
             IN  IF any_named(previous_tags, old_tag_name)
                 THEN Tagging(Some(Append(retain_other(previous_tags, old_tag_name), new_tag)))
                 ELSE Tagging(Some(previous_tags))
        ELSE Tagging(None)

replace_with_true_tag(self, old_tag_name, new_tag_name) ==
    LET new_tag == Tag(new_tag_name, "true")
        tag_set == IF IsSome(self.tag_set)
                   THEN LET previous_tags == Unwrap(self.tag_set)
                        IN  IF any_named(previous_tags, old_tag_name)
                            THEN Append(retain_other(previous_tags, old_tag_name), new_tag)
                            ELSE previous_tags
                   ELSE <<new_tag>>
    IN  Tagging(Some(tag_set))

replace_with_false_tag(self, old_tag_name, new_tag_name) ==
    LET new_tag == Tag(new_tag_name, "false")
        tag_set == IF IsSome(self.tag_set)
                   THEN LET previous_tags == Unwrap(self.tag_set)
                        IN  IF any_named(previous_tags, old_tag_name)
                            THEN Append(retain_other(previous_tags, old_tag_name), new_tag)
                            ELSE previous_tags
                   ELSE <<new_tag>>
    IN  Tagging(Some(tag_set))

\* Mutant: only the first tag of the name is dropped.
remove_tag_first(self, tag_name) ==
    IF IsSome(self.tag_set)
    THEN LET tags == Unwrap(self.tag_set)
             hits == {i \in DOMAIN tags : tags[i].key = tag_name}
             first == IF hits = {} THEN 0 ELSE CHOOSE i \in hits : \A j \in hits : i <= j
             previous_tags == SubSeq(tags, 1, first - 1) \o SubSeq(tags, first + 1, Len(tags))
         IN  IF previous_tags = <<>>
             THEN Tagging(None)
             ELSE Tagging(Some(previous_tags))
    ELSE Tagging(None)

\* Mutant: an emptied collection is returned as a present list of zero tags.
remove_tag_empty_list(self, tag_name) ==
    IF IsSome(self.tag_set)
    THEN Tagging(Some(retain_other(Unwrap(self.tag_set), tag_name)))
    ELSE Tagging(None)

remove_tag(self, tag_name) ==
    IF IsSome(self.tag_set)
    THEN LET previous_tags == retain_other(Unwrap(self.tag_set), tag_name)
         IN  IF previous_tags = <<>>
             THEN Tagging(None)
             ELSE Tagging(Some(previous_tags))
    ELSE Tagging(None)

----------------------------------------------------------------------------
(* Validator: src/src/lib.rs, over std::path::Path *)

Digits == {"0", "1", "2", "3", "4", "5", "6", "7", "8", "9"}

\* char::is_numeric on the characters the model's keys are written with
is_numeric(c) == c \in Digits

\* str::split(delim).collect(): the pieces between the delimiters, empty
\* pieces included; an empty string gives one empty piece.
RECURSIVE split(_, _)
split(s, delim) ==
    IF \A i \in DOMAIN s : s[i] # delim
    THEN <<s>>
    ELSE LET i == CHOOSE j \in DOMAIN s :
                      s[j] = delim /\ \A k \in 1..(j - 1) : s[k] # delim
         IN  <<SubSeq(s, 1, i - 1)>> \o split(SubSeq(s, i + 1, Len(s)), delim)

\* Path::file_name: the last component if it is a normal one.  Components
\* are the pieces between "/"; empty pieces and "." pieces are skipped when
\* walking back from the end; ".." is not a normal component.
file_name(path) ==
    LET segs == split(path, "/")
        normal == {i \in DOMAIN segs : segs[i] # <<>> /\ segs[i] # <<".">>}
    IN  IF normal = {}
        THEN None
        ELSE LET last == CHOOSE i \in normal : \A j \in normal : j <= i
             IN  IF segs[last] = <<".", ".">> THEN None ELSE Some(segs[last])

\* std::path::rsplit_file_at_dot: (before, after) around the last ".".
rsplit_file_at_dot(file) ==
    IF file = <<".", ".">>
    THEN [before |-> Some(file), after |-> None]
    ELSE LET dots == {i \in DOMAIN file : file[i] = "."}
         IN  IF dots = {}
             THEN [before |-> None, after |-> Some(file)]
             ELSE LET d == CHOOSE i \in dots : \A j \in dots : j <= i
                  IN  IF d = 1
                      THEN [before |-> Some(file), after |-> None]
                      ELSE [before |-> Some(SubSeq(file, 1, d - 1)),
                            after |-> Some(SubSeq(file, d + 1, Len(file)))]

\* Path::extension: before.and(after)
extension(path) ==
    LET f == file_name(path)
    IN  IF f = None
        THEN None
        ELSE LET s == rsplit_file_at_dot(Unwrap(f))
             IN  IF IsSome(s.before) THEN s.after ELSE None

\* Path::file_stem: before.or(after)
file_stem(path) ==
    LET f == file_name(path)
    IN  IF f = None
        THEN None
        ELSE LET s == rsplit_file_at_dot(Unwrap(f))
             IN  IF IsSome(s.before) THEN s.before ELSE s.after

\* A check returns Option<String>, or panics (Option::unwrap on None).
Returned(o) == [panic |-> FALSE, ret |-> o]
Panicked == [panic |-> TRUE]

check_file_extension(s3_entity) ==
    IF s3_entity.key = None
    THEN Returned(Some("Missing object key"))
    ELSE LET ext == extension(Unwrap(s3_entity.key))
         IN  IF ext = None
             THEN Returned(Some("Missing file extension"))
             ELSE IF Unwrap(ext) # <<"t", "x", "t">>
                  THEN Returned(Some("Invalid file extension, should be .txt"))
                  ELSE Returned(None)

\* Mutant: a size of zero passes.
check_file_size_nonnegative(s3_entity) ==
    IF s3_entity.size = None
    THEN Returned(Some("Missing object size"))
    ELSE IF Unwrap(s3_entity.size) < 0
         THEN Returned(Some("Invalid size, it should be greater than 0"))
         ELSE Returned(None)

check_file_size(s3_entity) ==
    IF s3_entity.size = None
    THEN Returned(Some("Missing object size"))
    ELSE IF Unwrap(s3_entity.size) <= 0
         THEN Returned(Some("Invalid size, it should be greater than 0"))
         ELSE Returned(None)

check_file_name(s3_entity) ==
    IF s3_entity.key = None
    THEN Returned(Some("Missing object key"))
    ELSE LET stem == file_stem(Unwrap(s3_entity.key))
         IN  IF stem = None
             THEN Panicked
             ELSE LET parts == split(Unwrap(stem), "-")
                  IN  IF Len(parts) # 4
                      THEN Returned(Some("Invalid file name format, it should be formated as a Prod ID"))
                      ELSE IF \E i \in DOMAIN parts :
                                 \E j \in DOMAIN parts[i] : ~is_numeric(parts[i][j])
                           THEN Returned(Some("Invalid file name format, it should be a numeric code"))
                           ELSE Returned(None)

\* [String]::join(", ")
RECURSIVE join(_)
join(msgs) ==
    IF msgs = <<>> THEN ""
    ELSE IF Len(msgs) = 1 THEN msgs[1]
    ELSE msgs[1] \o ", " \o join(Tail(msgs))

\* The checks run in this order; a panic in one ends the call.
is_valid_file(s3_entity) ==
    LET e1 == check_file_extension(s3_entity)
        e2 == check_file_size(s3_entity)
        e3 == check_file_name(s3_entity)
    IN  IF e1.panic \/ e2.panic \/ e3.panic
        THEN Panicked
        ELSE LET error_messages == e1.ret \o e2.ret \o e3.ret
             IN  IF error_messages = <<>>
                 THEN Returned(<<TRUE, "File is valid">>)
                 ELSE Returned(<<FALSE, join(error_messages)>>)

----------------------------------------------------------------------------
(* The inputs the workflow specification draws from *)

KeyProdId == <<"1", "2", "3", "4", "-", "0", "0", "0", "1", "-", "0", "0", "0", "2", "-", "0", "0", "0", "3", ".", "t", "x", "t">>
KeyBadCsv == <<"b", "a", "d", ".", "c", "s", "v">>
KeyPlusDir == <<"a", "+", "b", "/", "1", "-", "2", "-", "3", "-", "4", ".", "t", "x", "t">>
KeyParentDir == <<"d", "/", ".", ".">>
KeyOther == <<"o", "t", "h", "e", "r", ".", "t", "x", "t">>

WorkflowKeys == {KeyProdId, KeyBadCsv, KeyPlusDir, KeyParentDir}

\* aws_lambda_events::s3::S3Entity, the fields the code reads:
\* bucket.name, object.key, object.size, object.version_id.
Entities ==
    [bucket : {None, Some("bucket")},
     key : {None} \cup {Some(k) : k \in WorkflowKeys},
     size : {None, Some(0), Some(10)},
     version_id : {None, Some("v1")}]

OtherEntity ==
    [bucket |-> Some("bucket"), key |-> Some(KeyOther), size |-> Some(10), version_id |-> Some("v1")]

\* S3Event.records: none, one, or two (the second naming another object).
Events == {<<>>} \cup {<<e>> : e \in Entities} \cup {<<e, OtherEntity>> : e \in Entities}

Environments ==
    [SUCCESS_QUEUE_URL : {None, Some("success-queue")},
     FAILURE_QUEUE_URL : {None, Some("failure-queue")}]

QueueUrls == {"success-queue", "failure-queue"}

\* Tag sets an object may carry before the event.
PriorTagSets ==
    {<<>>,
     <<Tag("initial_tag", "true")>>,
     <<Tag("validating", "true"), Tag("initial_tag", "false")>>}

Invocations == 1..NumInvocations

\* LambdaEvent.context.request_id
RequestId(p) == "req-" \o ToString(p)

----------------------------------------------------------------------------
(* The remote services as the handler sees them *)

\* str::replace("+", " ")
RECURSIVE replace_plus(_)
replace_plus(key) ==
    IF key = <<>> THEN <<>>
    ELSE <<IF Head(key) = "+" THEN " " ELSE Head(key)>> \o replace_plus(Tail(key))

ObjectId(bucket, key, version_id) == [bucket |-> bucket, key |-> key, version_id |-> version_id]

ObjectIds ==
    {ObjectId("bucket", k, "v1") :
        k \in WorkflowKeys \cup {replace_plus(k) : k \in WorkflowKeys} \cup {KeyOther}}

PutObjectTaggingRequest(bucket, key, version_id, tg) ==
    [api |-> "PutObjectTagging", bucket |-> Some(bucket), key |-> Some(key),
     version_id |-> Some(version_id), tagging |-> Some(tg),
     queue_url |-> None, message_body |-> None, message_group_id |-> None]

GetObjectTaggingRequest(bucket, key, version_id) ==
    [api |-> "GetObjectTagging", bucket |-> Some(bucket), key |-> Some(key),
     version_id |-> Some(version_id), tagging |-> None,
     queue_url |-> None, message_body |-> None, message_group_id |-> None]

SendMessageRequest(queue_url, body, group_id) ==
    [api |-> "SendMessage", bucket |-> None, key |-> None,
     version_id |-> None, tagging |-> None,
     queue_url |-> Some(queue_url), message_body |-> Some(body),
     message_group_id |-> Some(group_id)]

ObjectOf(req) == ObjectId(Unwrap(req.bucket), Unwrap(req.key), Unwrap(req.version_id))

\* Mutant: the store keeps the tags of an object that already has some.
PutObjectTagging_if_untagged(st, req) ==
    [st EXCEPT ![ObjectOf(req)] =
        IF @ = <<>> THEN Unwrap(Unwrap(req.tagging).tag_set) ELSE @]

\* Mutant: the store merges the request's tags into the object's tag set.
PutObjectTagging_merge(st, req) ==
    [st EXCEPT ![ObjectOf(req)] =
        LET sent == Unwrap(Unwrap(req.tagging).tag_set)
        IN  SelectSeq(@, LAMBDA t : \A i \in DOMAIN sent : sent[i].key # t.key) \o sent]

\* S3 PutObjectTagging: the object's tag set becomes the request's.
PutObjectTagging(st, req) ==
    [st EXCEPT ![ObjectOf(req)] =
        IF IsSome(Unwrap(req.tagging).tag_set) THEN Unwrap(Unwrap(req.tagging).tag_set) ELSE <<>>]

\* Mutant: the read reports an object without tags.
GetObjectTagging_no_tags(st, req) == [tag_set |-> Some(<<>>)]

\* S3 GetObjectTagging: GetObjectTaggingOutput with the object's tag set.
GetObjectTagging(st, req) == [tag_set |-> Some(st[ObjectOf(req)])]

\* SQS SendMessage: the queue accepts the body.
SendMessage(qs, req) ==
    [qs EXCEPT ![Unwrap(req.queue_url)] =
        Append(@, [body |-> Unwrap(req.message_body), group_id |-> Unwrap(req.message_group_id)])]

\* An issued call: pending until its reply arrives, then "ok" or "err".
Pending(req) == [req |-> req, status |-> "pending", output |-> None]

Replied(cs, status, output) ==
    [cs EXCEPT ![Len(cs)] = [@ EXCEPT !.status = status, !.output = output]]

----------------------------------------------------------------------------
(* single_tag and add_tag: src/src/lib.rs *)

\* single_tag up to its await: the three required fields, then the request.
single_tag_request(event_s3_attributes, tag_name) ==
    IF event_s3_attributes.bucket = None
    THEN Err("Missing bucket name")
    ELSE IF event_s3_attributes.key = None
    THEN Err("Missing object key")
    ELSE IF event_s3_attributes.version_id = None
    THEN Err("Object has no version ID defined, is versioning enabled in the bucket?")
    ELSE Ok(PutObjectTaggingRequest(Unwrap(event_s3_attributes.bucket),
                                    replace_plus(Unwrap(event_s3_attributes.key)),
                                    Unwrap(event_s3_attributes.version_id),
                                    tag_as_true(tag_name)))

\* Mutant: add_tag writes the tag without reading the current tags first.
add_tag_get_request_blind(event_s3_attributes) ==
    single_tag_request(event_s3_attributes, "valid")

\* add_tag up to its first await: the same three fields, then the read.
add_tag_get_request(event_s3_attributes) ==
    IF event_s3_attributes.bucket = None
    THEN Err("Missing bucket name")
    ELSE IF event_s3_attributes.key = None
    THEN Err("Missing object key")
    ELSE IF event_s3_attributes.version_id = None
    THEN Err("Object has no version ID defined, is versioning enabled in the bucket?")
    ELSE Ok(GetObjectTaggingRequest(Unwrap(event_s3_attributes.bucket),
                                    replace_plus(Unwrap(event_s3_attributes.key)),
                                    Unwrap(event_s3_attributes.version_id)))

\* Mutant: the write goes to the key as the event spells it.
add_tag_put_request_raw_key(event_s3_attributes, output, tag_name) ==
    PutObjectTaggingRequest(Unwrap(event_s3_attributes.bucket),
                            Unwrap(event_s3_attributes.key),
                            Unwrap(event_s3_attributes.version_id),
                            add_true_tag(output, tag_name))

\* Mutant: the write carries the outcome tag alone, whatever was read.
add_tag_put_request_blind(event_s3_attributes, output, tag_name) ==
    PutObjectTaggingRequest(Unwrap(event_s3_attributes.bucket),
                            replace_plus(Unwrap(event_s3_attributes.key)),
                            Unwrap(event_s3_attributes.version_id),
                            tag_as_true(tag_name))

\* add_tag between its awaits: the read's output with the tag upserted.
add_tag_put_request(event_s3_attributes, output, tag_name) ==
    PutObjectTaggingRequest(Unwrap(event_s3_attributes.bucket),
                            replace_plus(Unwrap(event_s3_attributes.key)),
                            Unwrap(event_s3_attributes.version_id),
                            add_true_tag(output, tag_name))

\* map_err of a failed store call: the cause wrapped with its context.
StoreError(what, req, tag_name) ==
    [caused |-> what, original_error |-> "service error", tag_name |-> tag_name,
     bucket |-> req.bucket, key |-> req.key, version_id |-> req.version_id]

----------------------------------------------------------------------------
(* function_handler: src/src/main.rs *)

JsonNull == [type |-> "null"]
JsonString(s) == [type |-> "string", value |-> s]
JsonArray(a) == [type |-> "array", value |-> a]
JsonOption(o) == IF o = None THEN JsonNull ELSE JsonString(Unwrap(o))

\* serde_json::to_string of a ValidationMessageBody: every field is written,
\* a None as null.
to_string(m) ==
    [workflow |-> JsonString(m.workflow),
     exc_id |-> JsonString(m.exc_id),
     categories |-> JsonArray([i \in DOMAIN m.categories |-> JsonString(m.categories[i])]),
     message |-> JsonString(m.message),
     continue_url |-> JsonOption(m.continue_url),
     abort_url |-> JsonOption(m.abort_url)]

\* Mutant: the failure queue's URL is not looked up before the first store call.
handler_prologue_lazy(environment, payload) ==
    IF environment.SUCCESS_QUEUE_URL = None
    THEN Err("Missing SUCCESS_QUEUE_URL environment variable")
    ELSE IF payload = <<>>
    THEN Err("No records found in event")
    ELSE Ok(Head(payload))

\* The environment, then the first record.
handler_prologue(environment, payload) ==
    IF environment.SUCCESS_QUEUE_URL = None
    THEN Err("Missing SUCCESS_QUEUE_URL environment variable")
    ELSE IF environment.FAILURE_QUEUE_URL = None
    THEN Err("Missing FAILURE_QUEUE_URL environment variable")
    ELSE IF payload = <<>>
    THEN Err("No records found in event")
    ELSE Ok(Head(payload))

\* The outcome tag add_tag is called with on each branch.
outcome_tag(file_valid) == IF file_valid THEN "valid" ELSE "quarentine"

\* Mutant: the failure message's URLs are set on the success branch too.
validation_message_body_urls(file_valid, request_id, validation_message) ==
    [workflow |-> "Validation_Workflow",
     exc_id |-> request_id,
     categories |-> <<"CD-TECH", "AM-DEVS">>,
     message |-> validation_message,
     continue_url |-> Some("https://example.com/continue"),
     abort_url |-> Some("https://example.com/abort")]

\* success_message / failure_message
validation_message_body(file_valid, request_id, validation_message) ==
    [workflow |-> "Validation_Workflow",
     exc_id |-> request_id,
     categories |-> <<"CD-TECH", "AM-DEVS">>,
     message |-> validation_message,
     continue_url |-> IF file_valid THEN None ELSE Some("https://example.com/continue"),
     abort_url |-> IF file_valid THEN None ELSE Some("https://example.com/abort")]

\* Mutant: every message goes to the success queue.
message_queue_url_success(file_valid, environment) ==
    Unwrap(environment.SUCCESS_QUEUE_URL)

\* The queue the message goes to on each branch.
message_queue_url(file_valid, environment) ==
    IF file_valid THEN Unwrap(environment.SUCCESS_QUEUE_URL)
    ELSE Unwrap(environment.FAILURE_QUEUE_URL)

send_message_request(file_valid, environment, request_id, validation_message) ==
    SendMessageRequest(message_queue_url(file_valid, environment),
                       to_string(validation_message_body(file_valid, request_id, validation_message)),
                       "ValidationGroup")

Response(request_id, validation_message) == [req_id |-> request_id, message |-> validation_message]

\* Mutant: the last record's entity is taken.
Attributes_last == event[Len(event)]

\* event_s3_attributes: the first record's entity
Attributes == Head(event)

FileValid(p) == Unwrap(verdict[p])[1]
ValidationMessage(p) == Unwrap(verdict[p])[2]
LastCall(p) == calls[p][Len(calls[p])]

\* The handler returns Err(e).
Fail(p, cs, e) ==
    /\ calls' = [calls EXCEPT ![p] = cs]
    /\ pc' = [pc EXCEPT ![p] = "error"]
    /\ result' = [result EXCEPT ![p] = Some(Err(e))]

\* The handler issues the call r.val and suspends at `at`, or returns r.err.
IssueOrFail(p, cs, r, at) ==
    IF r.ok
    THEN /\ calls' = [calls EXCEPT ![p] = Append(cs, Pending(r.val))]
         /\ pc' = [pc EXCEPT ![p] = at]
         /\ UNCHANGED result
    ELSE Fail(p, cs, r.err)

\* The runtime invokes function_handler: environment, first record, then
\* single_tag(.., "validating") up to its await.
Invoke(p) ==
    /\ pc[p] = "idle"
    /\ LET e == handler_prologue(env, event)
       IN  IF e.ok
           THEN IssueOrFail(p, calls[p], single_tag_request(e.val, "validating"), "single_tag_validating")
           ELSE Fail(p, calls[p], e.err)
    /\ UNCHANGED <<env, event, store, queues, verdict, tagvars, valvars>>

\* The "validating" write is acknowledged: is_valid_file runs, then
\* single_tag(.., "validated") up to its await.
ValidatingTagged(p) ==
    /\ pc[p] = "single_tag_validating"
    /\ store' = PutObjectTagging(store, LastCall(p).req)
    /\ LET cs == Replied(calls[p], "ok", None)
           v == is_valid_file(Attributes)
       IN  IF v.panic
           THEN /\ calls' = [calls EXCEPT ![p] = cs]
                /\ pc' = [pc EXCEPT ![p] = "panicked"]
                /\ UNCHANGED <<verdict, result>>
           ELSE /\ verdict' = [verdict EXCEPT ![p] = Some(v.ret)]
                /\ IssueOrFail(p, cs, single_tag_request(Attributes, "validated"), "single_tag_validated")
    /\ UNCHANGED <<env, event, queues, tagvars, valvars>>

\* The "validating" write fails: single_tag maps the error and the handler returns it.
ValidatingTagFailed(p) ==
    /\ pc[p] = "single_tag_validating"
    /\ Fail(p, Replied(calls[p], "err", None),
            StoreError("Could not add tag", LastCall(p).req, "validating"))
    /\ UNCHANGED <<env, event, store, queues, verdict, tagvars, valvars>>

\* The "validated" write is acknowledged: add_tag up to its first await.
ValidatedTagged(p) ==
    /\ pc[p] = "single_tag_validated"
    /\ store' = PutObjectTagging(store, LastCall(p).req)
    /\ IssueOrFail(p, Replied(calls[p], "ok", None), add_tag_get_request(Attributes), "add_tag_get")
    /\ UNCHANGED <<env, event, queues, verdict, tagvars, valvars>>

\* Mutant: a failed "validated" write is issued again.
ValidatedTagFailed_retry(p) ==
    /\ pc[p] = "single_tag_validated"
    /\ calls' = [calls EXCEPT ![p] = Append(Replied(@, "err", None), Pending(LastCall(p).req))]
    /\ UNCHANGED <<env, event, store, queues, pc, verdict, result, tagvars, valvars>>

ValidatedTagFailed(p) ==
    /\ pc[p] = "single_tag_validated"
    /\ Fail(p, Replied(calls[p], "err", None),
            StoreError("Could not add tag", LastCall(p).req, "validated"))
    /\ UNCHANGED <<env, event, store, queues, verdict, tagvars, valvars>>

\* add_tag's read returns: the tag is upserted into what was read and
\* the merged collection is written back.
TagsFetched(p) ==
    /\ pc[p] = "add_tag_get"
    /\ LET output == GetObjectTagging(store, LastCall(p).req)
       IN  IssueOrFail(p, Replied(calls[p], "ok", Some(output)),
                       Ok(add_tag_put_request(Attributes, output, outcome_tag(FileValid(p)))),
                       "add_tag_put")
    /\ UNCHANGED <<env, event, store, queues, verdict, tagvars, valvars>>

TagsFetchFailed(p) ==
    /\ pc[p] = "add_tag_get"
    /\ Fail(p, Replied(calls[p], "err", None),
            StoreError("Could not get tags", LastCall(p).req, outcome_tag(FileValid(p))))
    /\ UNCHANGED <<env, event, store, queues, verdict, tagvars, valvars>>

\* add_tag's write is acknowledged: the message is composed and sent.
OutcomeTagged(p) ==
    /\ pc[p] = "add_tag_put"
    /\ store' = PutObjectTagging(store, LastCall(p).req)
    /\ IssueOrFail(p, Replied(calls[p], "ok", None),
                   Ok(send_message_request(FileValid(p), env, RequestId(p), ValidationMessage(p))),
                   "send_message")
    /\ UNCHANGED <<env, event, queues, verdict, tagvars, valvars>>

OutcomeTagFailed(p) ==
    /\ pc[p] = "add_tag_put"
    /\ Fail(p, Replied(calls[p], "err", None),
            StoreError("Could not add tag", LastCall(p).req, outcome_tag(FileValid(p))))
    /\ UNCHANGED <<env, event, store, queues, verdict, tagvars, valvars>>

\* The send is acknowledged: the handler returns Ok(Response).
MessageSent(p) ==
    /\ pc[p] = "send_message"
    /\ queues' = SendMessage(queues, LastCall(p).req)
    /\ calls' = [calls EXCEPT ![p] = Replied(@, "ok", None)]
    /\ pc' = [pc EXCEPT ![p] = "done"]
    /\ result' = [result EXCEPT ![p] = Some(Ok(Response(RequestId(p), ValidationMessage(p))))]
    /\ UNCHANGED <<env, event, store, verdict, tagvars, valvars>>

MessageSendFailed(p) ==
    /\ pc[p] = "send_message"
    /\ Fail(p, Replied(calls[p], "err", None), "SendMessageError")
    /\ UNCHANGED <<env, event, store, queues, verdict, tagvars, valvars>>

----------------------------------------------------------------------------
(* The workflow specification *)

NoTagging == Tagging(None)

\* The key is written as dir, then the segments joined by "-", then "." and
\* the extension when there is one.
NoShape == [dir |-> <<>>, segments |-> <<>>, ext |-> None]

\* An S3Entity with the two fields the validator reads.
Entity(key, size) ==
    [bucket |-> Some("bucket"), key |-> key, size |-> size, version_id |-> Some("v1")]

\* is_valid_file is not being called.
ValidatorUnused ==
    /\ shape = NoShape
    /\ given = Entity(None, None)
    /\ vpc = "unused"
    /\ pushed = <<>>
    /\ checked = <<>>
    /\ validation = None
NoOp == [op |-> "none"]

Init ==
    /\ env \in Environments
    /\ event \in Events
    /\ \E prior \in PriorTagSets : store = [o \in ObjectIds |-> prior]
    /\ queues = [q \in QueueUrls |-> <<>>]
    /\ pc = [p \in Invocations |-> "idle"]
    /\ calls = [p \in Invocations |-> <<>>]
    /\ verdict = [p \in Invocations |-> None]
    /\ result = [p \in Invocations |-> None]
    /\ tagging = NoTagging
    /\ lastop = NoOp
    /\ ValidatorUnused

\* One step of invocation p.
Step(p) ==
    \/ Invoke(p)
    \/ ValidatingTagged(p)
    \/ ValidatingTagFailed(p)
    \/ ValidatedTagged(p)
    \/ ValidatedTagFailed(p)
    \/ TagsFetched(p)
    \/ TagsFetchFailed(p)
    \/ OutcomeTagged(p)
    \/ OutcomeTagFailed(p)
    \/ MessageSent(p)
    \/ MessageSendFailed(p)

Next == \E p \in Invocations : Step(p)

Spec == Init /\ [][Next]_vars

----------------------------------------------------------------------------
(* The tag-algebra specification: the operations of GenerateTags applied,  *)
(* in any order and with any arguments, to a collection that starts absent *)
(* or as any list of at most MaxTags tags, repeated names included.        *)

TagNames == {"validated", "valid", "initial_tag"}
TagValues == {"true", "false"}
TagUniverse == {Tag(k, v) : k \in TagNames, v \in TagValues}

RECURSIVE SeqsUpTo(_, _)
SeqsUpTo(S, n) ==
    IF n = 0 THEN {<<>>}
    ELSE LET shorter == SeqsUpTo(S, n - 1)
         IN  shorter \cup {Append(q, x) : q \in {r \in shorter : Len(r) = n - 1}, x \in S}

\* Tagging and GetObjectTaggingOutput both expose tag_set(): Option<&[Tag]>.
TagSources == {Tagging(None)} \cup {Tagging(Some(q)) : q \in SeqsUpTo(TagUniverse, MaxTags)}

BoolStr(b) == IF b THEN "true" ELSE "false"

\* The spec's names for the four operations, each a true/false pair in the code.
singleton(tag_name, b) == IF b THEN tag_as_true(tag_name) ELSE tag_as_false(tag_name)

upsert(self, tag_name, b) ==
    IF b THEN add_true_tag(self, tag_name) ELSE add_false_tag(self, tag_name)

replace(self, old_tag_name, new_tag_name, b) ==
    IF b THEN replace_with_true_tag(self, old_tag_name, new_tag_name)
    ELSE replace_with_false_tag(self, old_tag_name, new_tag_name)

\* An operation is applied while its result stays within MaxTags + 1 tags
\* (replace can grow a collection without limit).
Applied(op, old, name, b, out) ==
    /\ IsSome(out.tag_set) => Len(Unwrap(out.tag_set)) <= MaxTags + 1
    /\ tagging' = out
    /\ lastop' = [op |-> op, input |-> tagging, old |-> old, name |-> name,
                  value |-> BoolStr(b), output |-> out]
    /\ UNCHANGED <<wfvars, valvars>>

ApplySingleton == \E n \in TagNames, b \in BOOLEAN :
    Applied("singleton", n, n, b, singleton(n, b))

ApplyUpsert == \E n \in TagNames, b \in BOOLEAN :
    Applied("upsert", n, n, b, upsert(tagging, n, b))

ApplyReplace == \E o \in TagNames, n \in TagNames, b \in BOOLEAN :
    Applied("replace", o, n, b, replace(tagging, o, n, b))

ApplyRemove == \E n \in TagNames :
    Applied("remove", n, n, TRUE, remove_tag(tagging, n))

InitTags ==
    /\ env = [SUCCESS_QUEUE_URL |-> None, FAILURE_QUEUE_URL |-> None]
    /\ event = <<>>
    /\ store = [o \in ObjectIds |-> <<>>]
    /\ queues = [q \in QueueUrls |-> <<>>]
    /\ pc = [p \in Invocations |-> "idle"]
    /\ calls = [p \in Invocations |-> <<>>]
    /\ verdict = [p \in Invocations |-> None]
    /\ result = [p \in Invocations |-> None]
    /\ tagging \in TagSources
    /\ lastop = NoOp
    /\ ValidatorUnused

NextTags == ApplySingleton \/ ApplyUpsert \/ ApplyReplace \/ ApplyRemove

SpecTags == InitTags /\ [][NextTags]_vars

----------------------------------------------------------------------------
(* The validator specification: is_valid_file called once on an S3Entity   *)
(* whose key is absent or written from a directory, up to MaxSegments      *)
(* segments joined by "-" and an optional extension, and whose size is     *)
(* absent, negative, zero or positive.  The three checks run one after     *)
(* the other, each pushing its reason, then the verdict is returned.       *)

Segments == {<<>>, <<"1", "2">>, <<"1", "a">>}
Dirs == {<<>>, <<"a", "+", "b", "/">>, <<".", ".", "/">>}
Exts == {None, Some(<<>>), Some(<<"t", "x", "t">>), Some(<<"c", "s", "v">>)}
Sizes == {None, Some(-1), Some(0), Some(10)}

SystematicShapes == [dir : Dirs, segments : SeqsUpTo(Segments, MaxSegments), ext : Exts]

\* "1-2-3-4.txt", "12-34.txt" and "ab-12-34-56.txt"
ExampleShapes ==
    {[dir |-> <<>>, segments |-> <<<<"1">>, <<"2">>, <<"3">>, <<"4">>>>, ext |-> Some(<<"t", "x", "t">>)],
     [dir |-> <<>>, segments |-> <<<<"1", "2">>, <<"3", "4">>>>, ext |-> Some(<<"t", "x", "t">>)],
     [dir |-> <<>>, segments |-> <<<<"a", "b">>, <<"1", "2">>, <<"3", "4">>, <<"5", "6">>>>,
      ext |-> Some(<<"t", "x", "t">>)]}

RECURSIVE Dashed(_)
Dashed(segments) ==
    IF segments = <<>> THEN <<>>
    ELSE IF Len(segments) = 1 THEN segments[1]
    ELSE segments[1] \o <<"-">> \o Dashed(Tail(segments))

\* The object key written from its parts.
KeyOf(p) ==
    p.dir \o Dashed(p.segments) \o (IF p.ext = None THEN <<>> ELSE <<".">> \o Unwrap(p.ext))

\* if let Some(error) = check_file_extension(s3_entity) { error_messages.push(error) }
CheckFileExtension ==
    /\ vpc = "check_file_extension"
    /\ LET e == check_file_extension(given)
       IN  /\ pushed' = pushed \o e.ret
           /\ checked' = Append(checked, [check |-> "extension", reason |-> e.ret])
    /\ vpc' = "check_file_size"
    /\ UNCHANGED <<shape, given, validation, wfvars, tagvars>>

\* if let Some(error) = check_file_size(s3_entity) { error_messages.push(error) }
CheckFileSize ==
    /\ vpc = "check_file_size"
    /\ LET e == check_file_size(given)
       IN  /\ pushed' = pushed \o e.ret
           /\ checked' = Append(checked, [check |-> "size", reason |-> e.ret])
    /\ vpc' = "check_file_name"
    /\ UNCHANGED <<shape, given, validation, wfvars, tagvars>>

\* if let Some(error) = check_file_name(s3_entity) { error_messages.push(error) };
\* file_stem().unwrap() inside the check panics for a key without a file name.
CheckFileName ==
    /\ vpc = "check_file_name"
    /\ LET e == check_file_name(given)
       IN  IF e.panic
           THEN /\ vpc' = "panicked"
                /\ UNCHANGED <<pushed, checked>>
           ELSE /\ pushed' = pushed \o e.ret
                /\ checked' = Append(checked, [check |-> "name", reason |-> e.ret])
                /\ vpc' = "verdict"
    /\ UNCHANGED <<shape, given, validation, wfvars, tagvars>>

\* (true, "File is valid") when no reason was pushed, else (false, joined reasons)
ReturnVerdict ==
    /\ vpc = "verdict"
    /\ validation' = Some(IF pushed = <<>>
                          THEN <<TRUE, "File is valid">>
                          ELSE <<FALSE, join(pushed)>>)
    /\ vpc' = "returned"
    /\ UNCHANGED <<shape, given, pushed, checked, wfvars, tagvars>>

InitValid ==
    /\ env = [SUCCESS_QUEUE_URL |-> None, FAILURE_QUEUE_URL |-> None]
    /\ event = <<>>
    /\ store = [o \in ObjectIds |-> <<>>]
    /\ queues = [q \in QueueUrls |-> <<>>]
    /\ pc = [p \in Invocations |-> "idle"]
    /\ calls = [p \in Invocations |-> <<>>]
    /\ verdict = [p \in Invocations |-> None]
    /\ result = [p \in Invocations |-> None]
    /\ tagging = NoTagging
    /\ lastop = NoOp
    /\ \E size \in Sizes :
           \/ /\ shape \in SystematicShapes \cup ExampleShapes
              /\ given = Entity(Some(KeyOf(shape)), size)
           \/ /\ shape = NoShape
              /\ given = Entity(None, size)
    /\ vpc = "check_file_extension"
    /\ pushed = <<>>
    /\ checked = <<>>
    /\ validation = None

NextValid == CheckFileExtension \/ CheckFileSize \/ CheckFileName \/ ReturnVerdict

SpecValid == InitValid /\ [][NextValid]_vars

----------------------------------------------------------------------------
(* What the properties below speak about *)

\* The object the first record names, as the store calls address it.
TargetObject ==
    ObjectId(Unwrap(Attributes.bucket), replace_plus(Unwrap(Attributes.key)),
             Unwrap(Attributes.version_id))

TagsOf(o) == {store[o][i] : i \in DOMAIN store[o]}

\* Invocation p is the only one that has started.
Alone(p) == \A q \in Invocations \ {p} : pc[q] = "idle"

Awaiting == {"single_tag_validating", "single_tag_validated", "add_tag_get",
             "add_tag_put", "send_message"}

ApiOrder == <<"PutObjectTagging", "PutObjectTagging", "GetObjectTagging",
              "PutObjectTagging", "SendMessage">>

PendingCalls(p) == {i \in DOMAIN calls[p] : calls[p][i].status = "pending"}

WrittenTags(c) == Unwrap(Unwrap(c.req.tagging).tag_set)

----------------------------------------------------------------------------
(* C1 *)

\* The calls an invocation has issued are a prefix of: write {validating=true},
\* write {validated=true}, read, write a collection holding the outcome tag,
\* send; every call but the last has been acknowledged, at most one is
\* pending, and the validator has run before the second call is issued.
C1_Order ==
    \A p \in Invocations :
        LET cs == calls[p]
        IN  /\ Len(cs) <= 5
            /\ \A i \in DOMAIN cs : cs[i].req.api = ApiOrder[i]
            /\ \A i \in DOMAIN cs : i < Len(cs) => cs[i].status = "ok"
            /\ Cardinality(PendingCalls(p)) <= 1
            /\ (pc[p] \in Awaiting) = (PendingCalls(p) # {})
            /\ Len(cs) >= 1 => WrittenTags(cs[1]) = <<[key |-> "validating", value |-> "true"]>>
            /\ Len(cs) >= 2 => /\ verdict[p] # None
                               /\ WrittenTags(cs[2]) = <<[key |-> "validated", value |-> "true"]>>
            /\ Len(cs) <= 1 /\ PendingCalls(p) # {} => verdict[p] = None
            /\ Len(cs) >= 4 =>
                   \E i \in DOMAIN WrittenTags(cs[4]) :
                       /\ WrittenTags(cs[4])[i].key = (IF FileValid(p) THEN "valid" ELSE "quarentine")
                       /\ WrittenTags(cs[4])[i].value = "true"

\* A step never takes an invocation back: its call log only grows, by one call
\* at most, and calls already issued keep their request.
C1_Forward ==
    \A p \in Invocations :
        /\ Len(calls'[p]) \in {Len(calls[p]), Len(calls[p]) + 1}
        /\ \A i \in DOMAIN calls[p] : calls'[p][i].req = calls[p][i].req
        /\ \A i \in DOMAIN calls[p] :
               calls[p][i].status # "pending" => calls'[p][i] = calls[p][i]

\* C1: for one event the remote calls are issued in the fixed order, each only
\* after the previous one was acknowledged, never going back, never two in flight.
C1_CallOrder == []C1_Order /\ [][C1_Forward]_vars

\* An invocation has gone through all five calls while the other is in mid-flight.
C1_Witness ==
    \E p \in Invocations : \E q \in Invocations \ {p} :
        /\ pc[p] = "done" /\ Len(calls[p]) = 5
        /\ pc[q] = "add_tag_put"

----------------------------------------------------------------------------
(* C2 *)

SuccessBody(p) ==
    [workflow |-> JsonString("Validation_Workflow"),
     exc_id |-> JsonString(RequestId(p)),
     categories |-> JsonArray(<<JsonString("CD-TECH"), JsonString("AM-DEVS")>>),
     message |-> JsonString("File is valid"),
     continue_url |-> JsonNull,
     abort_url |-> JsonNull]

\* C2: an event processed alone whose metadata validates and whose calls all
\* succeed leaves the object with exactly {validated=true, valid=true}, whatever
\* it carried before, and sends one message, to the success queue, with
\* continue_url and abort_url absent.
C2_ValidAlone ==
    \A p \in Invocations :
        (pc[p] = "done" /\ Alone(p) /\ FileValid(p)) =>
            /\ Len(store[TargetObject]) = 2
            /\ TagsOf(TargetObject) = {[key |-> "validated", value |-> "true"],
                                       [key |-> "valid", value |-> "true"]}
            /\ queues["success-queue"] = <<[body |-> SuccessBody(p), group_id |-> "ValidationGroup"]>>
            /\ queues["failure-queue"] = <<>>

\* The event of the spec's scenario A has completed alone, on an object that
\* carried a "validating" tag and another tag before.
C2_Witness ==
    \E p \in Invocations :
        /\ pc[p] = "done" /\ Alone(p) /\ FileValid(p)
        /\ Attributes.key = Some(KeyProdId) /\ Attributes.size = Some(10)
        /\ \E o \in ObjectIds \ {TargetObject} :
               store[o] = <<[key |-> "validating", value |-> "true"],
                            [key |-> "initial_tag", value |-> "false"]>>

----------------------------------------------------------------------------
(* C3 *)

FailureBody(p, message) ==
    [workflow |-> JsonString("Validation_Workflow"),
     exc_id |-> JsonString(RequestId(p)),
     categories |-> JsonArray(<<JsonString("CD-TECH"), JsonString("AM-DEVS")>>),
     message |-> JsonString(message),
     continue_url |-> JsonString("https://example.com/continue"),
     abort_url |-> JsonString("https://example.com/abort")]

\* C3: an event processed alone whose metadata fails validation and whose calls
\* all succeed leaves the object with exactly {validated=true, quarantine=true}
\* and sends one message, to the failure queue, with both URLs populated; for
\* key "bad.csv" and size 0 the message holds the extension reason and the size
\* reason joined by ", ".
C3_InvalidAlone ==
    \A p \in Invocations :
        (pc[p] = "done" /\ Alone(p) /\ ~FileValid(p)) =>
            /\ Len(store[TargetObject]) = 2
            /\ TagsOf(TargetObject) = {[key |-> "validated", value |-> "true"],
                                       [key |-> "quarantine", value |-> "true"]}
            /\ queues["failure-queue"] =
                   <<[body |-> FailureBody(p, ValidationMessage(p)), group_id |-> "ValidationGroup"]>>
            /\ queues["success-queue"] = <<>>
            /\ (Attributes.key = Some(KeyBadCsv) /\ Attributes.size = Some(0)) =>
                   ValidationMessage(p) =
                       "Invalid file extension, should be .txt, Invalid size, it should be greater than 0"
                       \o ", Invalid file name format, it should be formated as a Prod ID"

----------------------------------------------------------------------------
(* C4 *)

\* The environment lacks a queue URL, or the first record lacks the bucket
\* name, the object key or the version id.
MissingField ==
    \/ env.SUCCESS_QUEUE_URL = None
    \/ env.FAILURE_QUEUE_URL = None
    \/ /\ event # <<>>
       /\ \/ Attributes.bucket = None
          \/ Attributes.key = None
          \/ Attributes.version_id = None

MissingFieldErrors ==
    {"Missing SUCCESS_QUEUE_URL environment variable",
     "Missing FAILURE_QUEUE_URL environment variable",
     "Missing bucket name", "Missing object key",
     "Object has no version ID defined, is versioning enabled in the bucket?"}

\* C4: with a required field missing no store read, store write or send is
\* ever issued, no tag changes, and the invocation ends with an error, never
\* with a Response.
C4_MissingFieldAborts ==
    MissingField =>
        /\ \A p \in Invocations :
               /\ calls[p] = <<>>
               /\ pc[p] \in {"idle", "error"}
               /\ pc[p] = "error" =>
                      /\ result[p] # None
                      /\ ~Unwrap(result[p]).ok
                      /\ Unwrap(result[p]).err \in MissingFieldErrors
               /\ pc[p] = "idle" => result[p] = None
        /\ \A q \in QueueUrls : queues[q] = <<>>
        /\ \A o \in ObjectIds : store[o] \in PriorTagSets

\* The spec's scenario C: only the version id is missing, and the invocation
\* has ended.
C4_Witness ==
    /\ env.SUCCESS_QUEUE_URL # None /\ env.FAILURE_QUEUE_URL # None
    /\ event # <<>>
    /\ Attributes.bucket # None /\ Attributes.key # None /\ Attributes.version_id = None
    /\ \E p \in Invocations : pc[p] = "error"

----------------------------------------------------------------------------
(* C5 *)

\* A failed call is the last call of its invocation, which has returned an error.
C5_FailedIsLast ==
    \A p \in Invocations : \A i \in DOMAIN calls[p] :
        calls[p][i].status = "err" =>
            /\ i = Len(calls[p])
            /\ pc[p] = "error"
            /\ result[p] # None /\ ~Unwrap(result[p]).ok

\* The acknowledged writes of p, in order.
AckedWrites(p) ==
    SelectSeq(calls[p], LAMBDA c : c.req.api = "PutObjectTagging" /\ c.status = "ok")

\* Nothing is rolled back: for an invocation running alone that ended with a
\* failed call, the object carries what its last acknowledged write put there;
\* after a failure of the "validated" stamp that is exactly {validating=true}.
C5_NoRollback ==
    \A p \in Invocations :
        (Alone(p) /\ pc[p] = "error" /\ calls[p] # <<>>) =>
            /\ AckedWrites(p) # <<>> =>
                   store[TargetObject] = WrittenTags(AckedWrites(p)[Len(AckedWrites(p))])
            /\ AckedWrites(p) = <<>> => store[TargetObject] \in PriorTagSets
            /\ Len(calls[p]) = 2 =>
                   store[TargetObject] = <<[key |-> "validating", value |-> "true"]>>

\* After the error nothing more happens for that invocation: no retry, no later call.
C5_Stopped ==
    \A p \in Invocations :
        pc[p] = "error" =>
            /\ pc'[p] = "error"
            /\ calls'[p] = calls[p]
            /\ result'[p] = result[p]

\* C5: a failed remote call aborts the workflow at that step with an error; it
\* is not retried, no later call is issued and the tags already written stay.
C5_FailureAborts == [](C5_FailedIsLast /\ C5_NoRollback) /\ [][C5_Stopped]_vars

\* The "validated" stamp has failed for an invocation running alone.
C5_Witness ==
    \E p \in Invocations :
        /\ Alone(p) /\ pc[p] = "error"
        /\ Len(calls[p]) = 2 /\ calls[p][2].status = "err"

----------------------------------------------------------------------------
(* C6 *)

Sends(p) == {i \in DOMAIN calls[p] : calls[p][i].req.api = "SendMessage"}

\* The messages a queue has accepted from invocation p.
Accepted(q, p) ==
    {i \in DOMAIN queues[q] : queues[q][i].body.exc_id = JsonString(RequestId(p))}

\* C6: an invocation sends at most once; one that returned a Response has sent
\* exactly once, to the success queue iff the verdict is valid and to the
\* failure queue otherwise; one that ended before the send step has sent nothing.
C6_OneSend ==
    \A p \in Invocations :
        /\ Cardinality(Sends(p)) <= 1
        /\ Cardinality(Accepted("success-queue", p)) + Cardinality(Accepted("failure-queue", p)) <= 1
        /\ (result[p] # None /\ Unwrap(result[p]).ok) =>
               /\ Cardinality(Sends(p)) = 1
               /\ \A i \in Sends(p) :
                      /\ calls[p][i].status = "ok"
                      /\ calls[p][i].req.queue_url =
                             Some(IF FileValid(p) THEN "success-queue" ELSE "failure-queue")
               /\ Cardinality(Accepted("success-queue", p)) = (IF FileValid(p) THEN 1 ELSE 0)
               /\ Cardinality(Accepted("failure-queue", p)) = (IF FileValid(p) THEN 0 ELSE 1)
        /\ (pc[p] \in {"error", "panicked"} /\ Len(calls[p]) < 5) =>
               /\ Sends(p) = {}
               /\ Accepted("success-queue", p) = {} /\ Accepted("failure-queue", p) = {}

\* Two invocations have each returned a Response on the invalid branch.
C6_Witness ==
    /\ \A p \in Invocations : pc[p] = "done" /\ ~FileValid(p)
    /\ Len(queues["failure-queue"]) = NumInvocations

----------------------------------------------------------------------------
(* C7 *)

\* The invocation has nothing in flight and is not waiting to be invoked.
Ended(p) == pc[p] \notin ({"idle"} \cup Awaiting)

\* C7: an invocation that has ended with every field present and every remote
\* call acknowledged has returned a Response carrying its request id and the
\* validation message, on either branch; an error is returned only for a
\* missing field (or record) or a failed remote call.
C7_ResponseUnlessFailure ==
    \A p \in Invocations :
        /\ (/\ Ended(p)
            /\ ~MissingField /\ event # <<>>
            /\ \A i \in DOMAIN calls[p] : calls[p][i].status = "ok") =>
               /\ result[p] # None
               /\ Unwrap(result[p]).ok
               /\ verdict[p] # None
               /\ Unwrap(result[p]).val =
                      [req_id |-> RequestId(p), message |-> ValidationMessage(p)]
        /\ (result[p] # None /\ ~Unwrap(result[p]).ok) =>
               \/ MissingField
               \/ event = <<>>
               \/ \E i \in DOMAIN calls[p] : calls[p][i].status = "err"

----------------------------------------------------------------------------
(* C8 *)

\* C8: an invocation that has been invoked and has no call in flight (so that
\* it can take no further step) has returned either a Response or an error;
\* there is no other terminal or stuck state.
C8_ResponseOrError ==
    \A p \in Invocations :
        Ended(p) =>
            /\ result[p] # None
            /\ pc[p] = (IF Unwrap(result[p]).ok THEN "done" ELSE "error")

----------------------------------------------------------------------------
(* C9 *)

StoreWrites == {"single_tag_validating", "single_tag_validated", "add_tag_put"}

\* Whenever a write of p is acknowledged, the object carries exactly the
\* collection p sent, whatever another invocation had written there before.
C9_WriteReplaces ==
    \A p \in Invocations :
        (/\ pc[p] \in StoreWrites
         /\ Len(calls'[p]) >= Len(calls[p])
         /\ calls'[p][Len(calls[p])].status = "ok") =>
            store'[ObjectOf(LastCall(p).req)] = WrittenTags(LastCall(p))

\* The collection add_tag writes is made from what add_tag itself read, not
\* from what the object carries when the write arrives.
C9_MergedFromOwnRead ==
    \A p \in Invocations :
        Len(calls[p]) >= 4 =>
            LET read == Unwrap(Unwrap(calls[p][3].output).tag_set)
                name == IF FileValid(p) THEN "valid" ELSE "quarentine"
                sent == WrittenTags(calls[p][4])
            IN  {sent[i] : i \in DOMAIN sent} =
                    {read[i] : i \in {j \in DOMAIN read : read[j].key # name}}
                        \cup {[key |-> name, value |-> "true"]}

\* C9: store writes are last-write-wins and add_tag merges into a possibly
\* stale read, so of two invocations on the same object version one can lose
\* the collection its fetch-merge-write stored to a later write of the other.
C9_LastWriteWins == []C9_MergedFromOwnRead /\ [][C9_WriteReplaces]_vars

\* p's merged collection was acknowledged, and a later write of q has replaced
\* it: the object no longer carries p's outcome tag.
C9_Witness ==
    \E p \in Invocations : \E q \in Invocations \ {p} :
        /\ Len(calls[p]) >= 4 /\ calls[p][4].status = "ok"
        /\ AckedWrites(q) # <<>>
        /\ store[TargetObject] = WrittenTags(AckedWrites(q)[Len(AckedWrites(q))])
        /\ store[TargetObject] # WrittenTags(calls[p][4])
        /\ \A i \in DOMAIN store[TargetObject] :
               store[TargetObject][i].key \notin {"valid", "quarentine"}

----------------------------------------------------------------------------
(* C10 *)

Count(tags, t) == Cardinality({i \in DOMAIN tags : tags[i] = t})

\* C10: upsert's result holds exactly one tag named n, with the requested
\* value; every tag of the input with another name is in the result as often as
\* in the input, and nothing else is; on an absent input the result is the singleton.
C10_Upsert ==
    lastop.op = "upsert" =>
        /\ IsSome(lastop.output.tag_set)
        /\ LET out == Unwrap(lastop.output.tag_set)
               named == {i \in DOMAIN out : out[i].key = lastop.name}
           IN  /\ Cardinality(named) = 1
               /\ \A i \in named : out[i].value = lastop.value
               /\ IF lastop.input.tag_set = None
                  THEN out = <<[key |-> lastop.name, value |-> lastop.value]>>
                  ELSE \A t \in TagUniverse :
                           t.key # lastop.name =>
                               Count(out, t) = Count(Unwrap(lastop.input.tag_set), t)

\* upsert was applied to a collection holding the name twice and another tag.
C10_Witness ==
    /\ lastop.op = "upsert"
    /\ lastop.input.tag_set # None
    /\ LET in == Unwrap(lastop.input.tag_set)
       IN  /\ Cardinality({i \in DOMAIN in : in[i].key = lastop.name}) >= 2
           /\ \E i \in DOMAIN in : in[i].key # lastop.name

\* upsert was applied to an absent collection.
C10_WitnessAbsent == lastop.op = "upsert" /\ lastop.input.tag_set = None

----------------------------------------------------------------------------
(* C11 *)

NamedCount(tags, name) == Cardinality({i \in DOMAIN tags : tags[i].key = name})

\* C11: replace on a present collection C returns C unchanged when C has no tag
\* named old; when C has one or more tags named old, the result has zero tags
\* named old and exactly one tag {new, b}.  Stated for old # new: with
\* old = new the two requirements on the result exclude each other.
C11_Replace ==
    (lastop.op = "replace" /\ lastop.input.tag_set # None /\ lastop.old # lastop.name) =>
        /\ IsSome(lastop.output.tag_set)
        /\ LET in == Unwrap(lastop.input.tag_set)
               out == Unwrap(lastop.output.tag_set)
           IN  IF NamedCount(in, lastop.old) = 0
               THEN out = in
               ELSE /\ NamedCount(out, lastop.old) = 0
                    /\ Count(out, [key |-> lastop.name, value |-> lastop.value]) = 1

\* The part of C11 the code keeps: C unchanged without a match; with a match
\* every tag named old is dropped, the others stay as they were and {new, b}
\* is appended last.
C11_ReplaceAppends ==
    (lastop.op = "replace" /\ lastop.input.tag_set # None) =>
        /\ IsSome(lastop.output.tag_set)
        /\ LET in == Unwrap(lastop.input.tag_set)
               out == Unwrap(lastop.output.tag_set)
           IN  IF NamedCount(in, lastop.old) = 0
               THEN out = in
               ELSE /\ Len(out) = Len(in) - NamedCount(in, lastop.old) + 1
                    /\ out[Len(out)] = [key |-> lastop.name, value |-> lastop.value]
                    /\ \A t \in TagUniverse :
                           t.key # lastop.old =>
                               Count(SubSeq(out, 1, Len(out) - 1), t) = Count(in, t)

----------------------------------------------------------------------------
(* C12 *)

\* At most one tag per name; an absent collection has none.
UniqueNames(t) ==
    IsSome(t.tag_set) =>
        \A i, j \in DOMAIN Unwrap(t.tag_set) :
            Unwrap(t.tag_set)[i].key = Unwrap(t.tag_set)[j].key => i = j

\* C12: no operation of the algebra, whatever its arguments, takes a collection
\* that is absent or has at most one tag per name to a collection with two tags
\* of the same name; so from such a start every sequence of operations keeps
\* the names unique.
C12_NamesStayUnique == [][UniqueNames(tagging) => UniqueNames(tagging')]_vars

----------------------------------------------------------------------------
(* C13 *)

\* The tags of a collection, none when it is absent.
TagsIn(t) == IF IsSome(t.tag_set) THEN Unwrap(t.tag_set) ELSE <<>>

\* C13: remove's result holds no tag named n and every tag of the input with
\* another name, as often as the input does and nothing else, whether the input
\* holds zero, one or several tags named n; removing n from the result again
\* returns the result unchanged.
C13_Remove ==
    lastop.op = "remove" =>
        LET in == TagsIn(lastop.input)
            out == TagsIn(lastop.output)
        IN  /\ NamedCount(out, lastop.name) = 0
            /\ Len(out) = Len(in) - NamedCount(in, lastop.name)
            /\ \A t \in TagUniverse :
                   t.key # lastop.name => Count(out, t) = Count(in, t)
            /\ remove_tag(lastop.output, lastop.name) = lastop.output

\* remove was applied to a collection holding the name several times next to
\* a tag of another name.
C13_Witness ==
    /\ lastop.op = "remove"
    /\ NamedCount(TagsIn(lastop.input), lastop.name) >= 2
    /\ \E i \in DOMAIN TagsIn(lastop.input) :
           TagsIn(lastop.input)[i].key # lastop.name
    /\ TagsIn(lastop.output) # <<>>

----------------------------------------------------------------------------
(* C14 *)

\* remove leaves no tags: the input holds no tag of another name.
LeavesNoTags == \A i \in DOMAIN TagsIn(lastop.input) :
                     TagsIn(lastop.input)[i].key = lastop.name

\* C14 as claimed: when remove leaves no tags, it returns a present collection
\* with zero tags, not an absent one.
C14_RemoveToEmpty ==
    (lastop.op = "remove" /\ LeavesNoTags) => lastop.output.tag_set = Some(<<>>)

\* C14 as the code has it: when remove leaves no tags, the returned Tagging has
\* no tag list (tag_set is absent, as in Tagging::builder().build()); remove
\* never returns a present list of zero tags, and returns a present list
\* whenever a tag is left.
C14_RemoveToAbsent ==
    lastop.op = "remove" =>
        /\ LeavesNoTags <=> lastop.output.tag_set = None
        /\ lastop.output.tag_set # Some(<<>>)

\* remove emptied a present, non-empty collection.
C14_Witness ==
    /\ lastop.op = "remove"
    /\ TagsIn(lastop.input) # <<>>
    /\ LeavesNoTags
    /\ lastop.output = Tagging(None)

----------------------------------------------------------------------------
(* C15 *)

\* C15: replace on an absent collection yields the present one-tag collection
\* {new, b}, whatever old is (old = new included); never an absent or empty one.
C15_ReplaceAbsent ==
    (lastop.op = "replace" /\ lastop.input.tag_set = None) =>
        lastop.output.tag_set = Some(<<[key |-> lastop.name, value |-> lastop.value]>>)

\* replace with old = new was applied to an absent collection.
C15_Witness ==
    /\ lastop.op = "replace"
    /\ lastop.input.tag_set = None
    /\ lastop.old = lastop.name
    /\ lastop.value = "true"

----------------------------------------------------------------------------
(* C16 *)

\* The operation now applied is the one applied last, with the same arguments;
\* it is therefore applied to its own result (tagging = lastop.output).
SameOperationAgain ==
    /\ lastop.op # "none"
    /\ lastop'.op = lastop.op
    /\ lastop'.old = lastop.old
    /\ lastop'.name = lastop.name
    /\ lastop'.value = lastop.value

\* C16: every operation is idempotent: singleton, upsert, replace or remove
\* applied with the same arguments to its own result returns that result.
C16_Idempotent == [][SameOperationAgain => tagging' = tagging]_vars

\* replace with old = new was applied to a collection it had produced, holding
\* the name and another tag, and rebuilt it to the same collection.
C16_Witness ==
    /\ lastop.op = "replace"
    /\ lastop.old = lastop.name
    /\ lastop.input = lastop.output
    /\ NamedCount(TagsIn(lastop.input), lastop.old) = 1
    /\ Len(TagsIn(lastop.input)) >= 2

----------------------------------------------------------------------------
(* C17 *)

AllNumeric(segment) == \A i \in DOMAIN segment : segment[i] \in Digits

\* The key has a file name extension equal to "txt" (a file name that is
\* nothing but "." and the extension has none).
HasTxtExtension ==
    /\ given.key # None
    /\ shape.ext = Some(<<"t", "x", "t">>)
    /\ Dashed(shape.segments) # <<>>

SizePositive == given.size # None /\ Unwrap(given.size) > 0

\* The file name without its extension is four segments joined by "-", each
\* of numeric characters only.
FourNumericSegments ==
    /\ given.key # None
    /\ Len(shape.segments) = 4
    /\ \A i \in DOMAIN shape.segments : AllNumeric(shape.segments[i])

ReturnedValid == vpc = "returned" /\ Unwrap(validation)[1]

\* C17: once is_valid_file has finished, it has returned valid = true exactly
\* when the key has the extension "txt", the size is present and greater than
\* zero, and the file name without the extension splits on "-" into exactly
\* four segments of numeric characters only.
C17_ValidIff ==
    vpc \in {"returned", "panicked"} =>
        (ReturnedValid <=> (HasTxtExtension /\ SizePositive /\ FourNumericSegments))

\* is_valid_file returned (true, "File is valid") for "1-2-3-4.txt" of size 10.
C17_Witness ==
    /\ vpc = "returned"
    /\ given.key = Some(<<"1", "-", "2", "-", "3", "-", "4", ".", "t", "x", "t">>)
    /\ given.size = Some(10)
    /\ validation = Some(<<TRUE, "File is valid">>)

\* is_valid_file returned false for "12-34.txt" and for "ab-12-34-56.txt".
C17_ExamplesFail ==
    (/\ vpc = "returned"
     /\ given.key \in {Some(<<"1", "2", "-", "3", "4", ".", "t", "x", "t">>),
                       Some(<<"a", "b", "-", "1", "2", "-", "3", "4", "-", "5", "6", ".", "t", "x", "t">>)})
        => ~Unwrap(validation)[1]

\* The steps of the validator specification return what the workflow's call of
\* is_valid_file returns.
StepwiseAgrees ==
    /\ vpc = "returned" => is_valid_file(given) = Returned(Unwrap(validation))
    /\ vpc = "panicked" => is_valid_file(given) = Panicked

----------------------------------------------------------------------------
(* C18 *)

\* The reason check i returned, "" when it passed.
ReasonOf(i) == IF checked[i].reason = None THEN "" ELSE Unwrap(checked[i].reason)

\* Two lists of reasons, each possibly empty, joined by ", ".
Sep(a, b) == IF a = "" THEN b ELSE IF b = "" THEN a ELSE a \o ", " \o b

\* All three checks were evaluated, in the order extension, size, name, and
\* the message returned is the reasons of those that failed joined by ", ",
\* or "File is valid" when none failed.
AllReasonsJoined ==
    /\ validation # None
    /\ Len(checked) = 3
    /\ checked[1].check = "extension"
    /\ checked[2].check = "size"
    /\ checked[3].check = "name"
    /\ Unwrap(validation)[2] =
           IF \E i \in 1..3 : checked[i].reason # None
           THEN Sep(Sep(ReasonOf(1), ReasonOf(2)), ReasonOf(3))
           ELSE "File is valid"

\* C18: whenever is_valid_file has finished, all three checks were evaluated and
\* its message is the reasons of every failed check joined by ", " in the order
\* extension, size, name, or "File is valid" when no check failed.
C18_AllReasonsJoined == vpc \in {"returned", "panicked"} => AllReasonsJoined

\* The same for the calls that return: it holds of every call that does not panic.
C18_JoinedWhenReturned == vpc = "returned" => AllReasonsJoined

\* Two checks failed and the third passed: the message is the two reasons.
C18_TwoReasons ==
    /\ vpc = "returned"
    /\ checked[1].reason # None
    /\ checked[2].reason # None
    /\ checked[3].reason = None

----------------------------------------------------------------------------
(* C19 *)

\* The tag writes and the tag read among the calls of invocation p.
StoreCalls(p) ==
    {i \in DOMAIN calls[p] :
        calls[p][i].req.api \in {"PutObjectTagging", "GetObjectTagging"}}

\* key is raw with every "+" replaced by a space.
Decodes(key, raw) ==
    /\ Len(key) = Len(raw)
    /\ \A i \in DOMAIN raw : key[i] = (IF raw[i] = "+" THEN " " ELSE raw[i])

\* C19: every tag write and tag read an invocation issues names the bucket and
\* the version id of the event's first record and its key with every "+"
\* replaced by a space; no such call carries a key with a "+" in it.
C19_StoreCallsDecoded ==
    \A p \in Invocations : \A i \in StoreCalls(p) :
        LET req == calls[p][i].req
        IN  /\ req.bucket = Attributes.bucket
            /\ req.version_id = Attributes.version_id
            /\ IsSome(req.key)
            /\ Decodes(Unwrap(req.key), Unwrap(Attributes.key))
            /\ \A j \in DOMAIN Unwrap(req.key) : Unwrap(req.key)[j] # "+"

\* For the key "a+b/1-2-3-4.txt" an invocation has issued its three writes and
\* its read, all acknowledged.
C19_Witness ==
    \E p \in Invocations :
        /\ event # <<>>
        /\ Attributes.key = Some(KeyPlusDir)
        /\ Cardinality(StoreCalls(p)) = 4
        /\ \A i \in StoreCalls(p) : calls[p][i].status = "ok"

----------------------------------------------------------------------------
(* C20 *)

\* What add_tag of invocation p read, and the tag it is to add.
ReadTags(p) == Unwrap(Unwrap(calls[p][3].output).tag_set)
OutcomeTag(p) == [key |-> IF FileValid(p) THEN "valid" ELSE "quarentine", value |-> "true"]

\* The collection add_tag sends is the tags it read under other names, in the
\* order read, followed by the outcome tag.
C20_WritesReadPlusOutcome ==
    \A p \in Invocations :
        Len(calls[p]) >= 4 =>
            LET sent == WrittenTags(calls[p][4])
            IN  /\ calls[p][3].status = "ok"
                /\ sent = SelectSeq(ReadTags(p), LAMBDA t : t.key # OutcomeTag(p).key)
                              \o <<OutcomeTag(p)>>

\* A failed read ends the invocation with the read as its last call.
C20_NoWriteAfterFailedRead ==
    \A p \in Invocations :
        (Len(calls[p]) >= 3 /\ calls[p][3].status = "err") =>
            (Len(calls[p]) = 3 /\ pc[p] = "error")

\* Running alone, the invocation's acknowledged merged write leaves the
\* "validated" tag it wrote just before on the object, next to the outcome tag.
C20_ValidatedKept ==
    \A p \in Invocations :
        (Alone(p) /\ Len(calls[p]) >= 4 /\ calls[p][4].status = "ok") =>
            store[TargetObject] = <<[key |-> "validated", value |-> "true"], OutcomeTag(p)>>

\* When the merged write is acknowledged, every tag that was read is on the
\* object: under its own name and value, or as the outcome tag.
C20_ReadTagsKept ==
    \A p \in Invocations :
        (/\ pc[p] = "add_tag_put"
         /\ Len(calls'[p]) >= 4
         /\ calls'[p][4].status = "ok") =>
            LET after == store'[TargetObject]
            IN  /\ \A i \in DOMAIN ReadTags(p) :
                       \/ ReadTags(p)[i].key = OutcomeTag(p).key
                       \/ \E j \in DOMAIN after : after[j] = ReadTags(p)[i]
                /\ \E j \in DOMAIN after : after[j] = OutcomeTag(p)

\* C20: add_tag is a fetch-merge-write: what it writes is what it has just read
\* with the outcome tag upserted, so "validated" and every other tag read is
\* still on the object once the write is acknowledged; after a failed read no
\* write is issued.
C20_FetchMergeWrite ==
    /\ [](C20_WritesReadPlusOutcome /\ C20_NoWriteAfterFailedRead /\ C20_ValidatedKept)
    /\ [][C20_ReadTagsKept]_vars

\* An invocation read two tags, one of them not the outcome tag, and its merged
\* write was acknowledged and is what the object carries.
C20_Witness ==
    \E p \in Invocations :
        /\ Len(calls[p]) >= 4
        /\ calls[p][4].status = "ok"
        /\ Len(ReadTags(p)) = 2
        /\ \E i \in DOMAIN ReadTags(p) : ReadTags(p)[i].key = "validating"
        /\ store[TargetObject] = WrittenTags(calls[p][4])

----------------------------------------------------------------------------
(* C21 *)

\* Call i of invocation p is an acknowledged tag write whose collection holds
\* the tag named name with value "true".
AckedWriteOf(p, i, name) ==
    /\ calls[p][i].req.api = "PutObjectTagging"
    /\ calls[p][i].status = "ok"
    /\ \E j \in DOMAIN WrittenTags(calls[p][i]) :
           WrittenTags(calls[p][i])[j] = [key |-> name, value |-> "true"]

\* Every send of invocation p comes after the acknowledged write of the
\* "validated" stamp and the acknowledged write, following the read, of a
\* collection holding the marker: validMarker when the send goes to the success
\* queue, invalidMarker when it goes to the failure queue.
MarkedBeforeSend(p, validMarker, invalidMarker) ==
    \A s \in Sends(p) :
        /\ \E i \in 1..(s - 1) : AckedWriteOf(p, i, "validated")
        /\ \E i \in 2..(s - 1) :
               /\ calls[p][i - 1].req.api = "GetObjectTagging"
               /\ \/ /\ calls[p][s].req.queue_url = env.SUCCESS_QUEUE_URL
                     /\ AckedWriteOf(p, i, validMarker)
                  \/ /\ calls[p][s].req.queue_url = env.FAILURE_QUEUE_URL
                     /\ AckedWriteOf(p, i, invalidMarker)

\* C21: whenever an invocation has issued its send, its write of the
\* "validated" stamp and its write of the merged collection holding the outcome
\* tag were acknowledged before, and the outcome tag matches the queue: "valid"
\* with the success queue, "quarantine" with the failure queue.
C21_MarkedBeforeSend ==
    \A p \in Invocations : MarkedBeforeSend(p, "valid", "quarantine")

\* The same with the failure marker spelt as main.rs:102 spells it.
C21_MarkedBeforeSendAsSpelt ==
    \A p \in Invocations : MarkedBeforeSend(p, "valid", "quarentine")

----------------------------------------------------------------------------
(* C22 *)

\* Every invocation has returned a Response.
AllReturned == \A p \in Invocations : pc[p] = "done"

HasTag(name) == \E i \in DOMAIN store[TargetObject] : store[TargetObject][i].key = name

\* C22 as claimed: once every invocation for the same object version has
\* returned a Response, whatever the interleaving of their calls, the object
\* carries the "validated" tag and the outcome tag and not the "validating" tag.
C22_FinalTags ==
    AllReturned =>
        /\ HasTag("validated")
        /\ \A p \in Invocations : HasTag(OutcomeTag(p).key)
        /\ ~HasTag("validating")

\* C22 as the code has it: once every invocation has returned a Response the
\* object carries exactly two tags, the outcome tag and before it either
\* "validated" or, when a merged write was made from a read of another
\* invocation's in-progress stamp, "validating".
C22_FinalTagsRaced ==
    AllReturned =>
        /\ Len(store[TargetObject]) = 2
        /\ store[TargetObject][1] \in {[key |-> "validated", value |-> "true"],
                                       [key |-> "validating", value |-> "true"]}
        /\ \A p \in Invocations : store[TargetObject][2] = OutcomeTag(p)

\* Every invocation has returned a Response and the object carries
\* "validating" next to the outcome tag.
C22_Witness ==
    /\ AllReturned
    /\ store[TargetObject][1] = [key |-> "validating", value |-> "true"]
    /\ Len(store[TargetObject]) = 2

----------------------------------------------------------------------------
(* C23 *)

\* One Lambda instance: run() hands the handler the next event only after the
\* previous invocation has returned, so an invocation starts while no other is
\* suspended at a remote call.
NextSeq ==
    \E p \in Invocations :
        /\ pc[p] = "idle" => \A q \in Invocations : pc[q] \notin Awaiting
        /\ Step(p)

SpecSeq == Init /\ [][NextSeq]_vars

\* No invocation is under way and none has ended without a Response.
AllRunsCompleted == \A q \in Invocations : pc[q] \in {"idle", "done"}

\* The messages accepted by the two queues, and the invocations that have
\* returned a Response.
MessagesAccepted == Len(queues["success-queue"]) + Len(queues["failure-queue"])
CompletedRuns == {p \in Invocations : pc[p] = "done"}

\* C23: with the same event processed by one invocation after the other and
\* every remote call succeeding, the object carries after each completed run
\* the same collection, [validated=true, outcome=true]: a second run leaves
\* what the first left, its first stamp having overwritten the whole
\* collection with [validating=true]; each completed run has its own message
\* accepted.
C23_RerunSameTags ==
    /\ \A p \in Invocations :
           (AllRunsCompleted /\ pc[p] = "done") =>
               /\ store[TargetObject] = <<[key |-> "validated", value |-> "true"], OutcomeTag(p)>>
               /\ Cardinality(Accepted("success-queue", p))
                      + Cardinality(Accepted("failure-queue", p)) = 1
    /\ AllRunsCompleted => MessagesAccepted = Cardinality(CompletedRuns)
    /\ \A p \in Invocations :
           pc[p] = "single_tag_validated" =>
               store[TargetObject] = <<[key |-> "validating", value |-> "true"]>>

\* The event was processed twice, one run after the other: two messages were
\* accepted and the object carries the two tags.
C23_Witness ==
    /\ Cardinality(CompletedRuns) >= 2
    /\ MessagesAccepted >= 2
    /\ Len(store[TargetObject]) = 2

----------------------------------------------------------------------------
(* C24 *)

\* Object o is the one the event's first record names, its key decoded.
IsFirstRecordObject(o) ==
    /\ event # <<>>
    /\ event[1].bucket = Some(o.bucket)
    /\ event[1].version_id = Some(o.version_id)
    /\ IsSome(event[1].key)
    /\ Decodes(o.key, Unwrap(event[1].key))

\* With no record no call is issued and an invocation that has run has
\* returned an error.
C24_NoRecordNoCall ==
    event = <<>> =>
        \A p \in Invocations :
            /\ calls[p] = <<>>
            /\ pc[p] \in {"idle", "error"}
            /\ pc[p] = "error" =>
                   (/\ result[p] # None
                    /\ ~Unwrap(result[p]).ok
                    /\ (env.SUCCESS_QUEUE_URL # None /\ env.FAILURE_QUEUE_URL # None) =>
                           Unwrap(result[p]).err = "No records found in event")

\* Every store call names the first record's object, and the verdict the
\* message carries is the verdict on the first record.
C24_CallsConcernFirst ==
    \A p \in Invocations :
        /\ \A i \in StoreCalls(p) : IsFirstRecordObject(ObjectOf(calls[p][i].req))
        /\ verdict[p] # None => is_valid_file(event[1]) = Returned(Unwrap(verdict[p]))
        /\ \A q \in QueueUrls : \A i \in Accepted(q, p) :
               /\ verdict[p] # None
               /\ queues[q][i].body.message = JsonString(Unwrap(verdict[p])[2])

\* A step changes the tags of no object but the first record's.
C24_OthersUntouched ==
    \A o \in ObjectIds : store'[o] # store[o] => IsFirstRecordObject(o)

\* C24: an invocation acts on the first record only: with no record it returns
\* an error before any call; with several records every store call and the
\* message concern the first record's object, and the tags of every other
\* object stay as they were.
C24_FirstRecordOnly ==
    /\ [](C24_NoRecordNoCall /\ C24_CallsConcernFirst)
    /\ [][C24_OthersUntouched]_vars

\* An event of two records has been processed to its Response; the object of
\* the second record carries the tags it had before.
C24_Witness ==
    /\ Len(event) = 2
    /\ \E p \in Invocations : pc[p] = "done"
    /\ store[ObjectId("bucket", KeyOther, "v1")] =
           <<[key |-> "validating", value |-> "true"], [key |-> "initial_tag", value |-> "false"]>>

\* An invocation has returned the error of an event without records.
C24_WitnessNoRecord ==
    /\ event = <<>>
    /\ \E p \in Invocations :
           /\ pc[p] = "error"
           /\ Unwrap(result[p]).err = "No records found in event"

----------------------------------------------------------------------------
(* C25 *)

\* C25: is_valid_file is total: for every key (absent, empty, without a file
\* name component, with or without extension) and every size (absent, zero,
\* negative, positive) the call never panics, and once it has finished it has
\* returned a (valid, message) verdict.
C25_Total ==
    /\ vpc # "panicked"
    /\ vpc = "returned" => validation # None

\* The calls that panic are those on a present key without a file name
\* component ("", ".", "../"); every other call returns a verdict.
C25_PanicsWithoutFileName ==
    /\ vpc = "panicked" => (given.key # None /\ file_name(Unwrap(given.key)) = None)
    /\ vpc = "returned" =>
           /\ validation # None
           /\ given.key # None => file_name(Unwrap(given.key)) # None

=============================================================================
